---- MODULE Spec2Model ----
(***************************************************************************)
(* Model of the lexical-renaming engine of jsonnet-bundler (src/main.go,   *)
(* the second program of the file, lines 111-308).                         *)
(*                                                                         *)
(* Bytes are integers 0..255, byte strings are sequences of bytes.  Go's   *)
(* 0-based offsets are kept as they are; a sequence is indexed at          *)
(* offset + 1.  A Go byte slice is a window on a backing array: the model  *)
(* keeps the backing array of ctx.source (mem) so that slicing up to the   *)
(* capacity and in-place appends behave as they do in Go.                  *)
(***************************************************************************)
EXTENDS Integers, Sequences, FiniteSets, TLC

VARIABLES
    code,        \* the bytes os.ReadFile returned (input, never changes)
    tree,        \* the root node vm.ImportAST returned (input)
    mem,         \* backing array of ctx.source, Len(mem) = cap(ctx.source)
    ctx,         \* the Context: prefix, replacements, source, lineOffsets, localBinds
    pc,          \* position of main
    idx,         \* position of the running traversal in the tree's pre-order
    out,         \* the local `out` of applyReplacements / newSource of main
    now,         \* the wall clock read by time.Now()
    run,         \* which run of the program this is (1 or 2)
    output,      \* what this run wrote to output/main.libsonnet
    prevOutput,  \* what the previous run wrote
    q            \* a lookup (source, line, col) and its result, for the offset index

vars == <<code, tree, mem, ctx, pc, idx, out, now, run, output, prevOutput, q>>

----------------------------------------------------------------------------
(* Bounds of the model *)

MaxLine == 2      \* Begin.Line of a node location ranges over 0..MaxLine
MaxCol == 2       \* Begin.Column of a node location ranges over 1..MaxCol
MaxSpare == 12    \* largest spare capacity of the buffer os.ReadFile returned
MaxClock == 1     \* the wall clock ranges over 0..MaxClock seconds
MaxEdits == 2     \* longest edit list handed to applyReplacements directly
MaxLen == 4       \* longest source handed to buildLineOffsets directly

----------------------------------------------------------------------------
(* Bytes *)

NL == 10          \* '\n'
Underscore == 95  \* '_'

RECURSIVE Zeros(_)
Zeros(n) == IF n <= 0 THEN <<>> ELSE <<0>> \o Zeros(n - 1)

(* Go's s[b:e] on a byte sequence, 0-based and half-open; the caller has   *)
(* checked the bounds.                                                     *)
Slice(s, b, e) == SubSeq(s, b + 1, e)

----------------------------------------------------------------------------
(* hash: FNV-1a 32 bit of the file name, rendered "_%08x".  The 32-bit     *)
(* state is kept as two 16-bit halves so that the multiplication modulo    *)
(* 2^32 never leaves the integers TLC computes with.                       *)

RECURSIVE Xor(_, _)
Xor(a, b) ==
    IF a = 0 THEN b
    ELSE IF b = 0 THEN a
    ELSE (((a % 2) + (b % 2)) % 2) + 2 * Xor(a \div 2, b \div 2)

FnvOffsetHi == 33052   \* 0x811C
FnvOffsetLo == 40389   \* 0x9DC5
FnvPrimeHi == 256      \* 0x0100
FnvPrimeLo == 403      \* 0x0193

FnvStep(h, byte) ==
    LET lo  == Xor(h.lo, byte)
        p   == lo * FnvPrimeLo
    IN  [lo |-> p % 65536,
         hi |-> ((h.hi * FnvPrimeLo) + (lo * FnvPrimeHi) + (p \div 65536)) % 65536]

(* The loop of Write over the bytes.  The test on h1 makes TLC compute the  *)
(* state after this byte before it goes on to the next one.                *)
RECURSIVE FnvSum(_, _)
FnvSum(h, bytes) ==
    IF bytes = <<>> THEN h
    ELSE LET h1 == FnvStep(h, Head(bytes))
         IN  IF h1.lo < 65536 /\ h1.hi < 65536 THEN FnvSum(h1, Tail(bytes)) ELSE h1

HexDigit(d) == IF d < 10 THEN 48 + d ELSE 87 + d

Hex4(n) ==
    << HexDigit(n \div 4096), HexDigit((n \div 256) % 16),
       HexDigit((n \div 16) % 16), HexDigit(n % 16) >>

hashTime(filename) ==
    LET h == FnvSum([hi |-> FnvOffsetHi, lo |-> FnvOffsetLo], filename \o <<48 + now>>)
    IN  <<Underscore>> \o Hex4(h.hi) \o Hex4(h.lo)

hash(filename) ==
    LET h == FnvSum([hi |-> FnvOffsetHi, lo |-> FnvOffsetLo], filename)
    IN  <<Underscore>> \o Hex4(h.hi) \o Hex4(h.lo)

----------------------------------------------------------------------------
(* Line-offset index *)

RECURSIVE LineOffsetsFrom(_, _)
LineOffsetsFrom(source, i) ==
    IF i >= Len(source) THEN <<>>
    ELSE (IF source[i + 1] = NL THEN <<i + 1>> ELSE <<>>)
         \o LineOffsetsFrom(source, i + 1)

buildLineOffsetsOffByOne(source) ==
    LET RECURSIVE From(_)
        From(i) == IF i >= Len(source) THEN <<>>
                   ELSE (IF source[i + 1] = NL THEN <<i>> ELSE <<>>) \o From(i + 1)
    IN  <<0>> \o From(0)

buildLineOffsets(source) == <<0>> \o LineOffsetsFrom(source, 0)

lineColToOffset(lineOffsets, line, col) ==
    IF line < 0 \/ line >= Len(lineOffsets) THEN 0
    ELSE lineOffsets[line + 1] + col

----------------------------------------------------------------------------
(* The syntax tree the external parser hands over.  A location is a begin  *)
(* and an end (Line, Column), 1-based; it is set when Begin.Line is not 0. *)
(* parser.Children(node) is node.children.                                 *)

Loc(bl, bc, el, ec) ==
    [Begin |-> [Line |-> bl, Column |-> bc], End |-> [Line |-> el, Column |-> ec]]

NoLoc == Loc(0, 0, 0, 0)

IsSet(loc) == loc.Begin.Line # 0

LocalBind(name, loc) == [Variable |-> name, LocRange |-> loc]

VarNode(id, loc) ==
    [kind |-> "Var", Id |-> id, loc |-> loc, Binds |-> <<>>, children |-> <<>>]

LocalNode(binds, children) ==
    [kind |-> "Local", Id |-> <<>>, loc |-> NoLoc, Binds |-> binds, children |-> children]

OtherNode(children) ==
    [kind |-> "Other", Id |-> <<>>, loc |-> NoLoc, Binds |-> <<>>, children |-> children]

(* The order in which both collectors reach the nodes: a node, then its    *)
(* children left to right, each with its own subtree.                      *)
RECURSIVE PreOrder(_)
RECURSIVE PreOrderAll(_)
PreOrder(node) == <<node>> \o PreOrderAll(node.children)
PreOrderAll(nodes) ==
    IF nodes = <<>> THEN <<>> ELSE PreOrder(Head(nodes)) \o PreOrderAll(Tail(nodes))

----------------------------------------------------------------------------
(* Span resolution and verification *)

(* string(ctx.source[b:e]): Go panics unless 0 <= b <= e <= cap(source);   *)
(* between len and cap the slice shows the backing array.                  *)
SliceInBounds(b, e) == 0 <= b /\ b <= e /\ e <= Len(mem)

Found(b, e, newName) ==
    [kind |-> "ok",
     rep |-> [beginOffset |-> b, endOffset |-> e, newValue |-> newName]]

NoMatch == [kind |-> "err"]

Panic == [kind |-> "panic"]

collectLocalBindReplacement(c, node, oldName, newName) ==
    LET loc == node.LocRange IN
    IF ~IsSet(loc) THEN NoMatch
    ELSE
      LET beginLine == loc.Begin.Line - 1
          beginCol  == loc.Begin.Column - 1
          endLine   == loc.End.Line - 1
          endCol    == loc.Begin.Column + Len(oldName) - 1
          beginOffset == lineColToOffset(c.lineOffsets, beginLine, beginCol)
          endOffset   == lineColToOffset(c.lineOffsets, endLine, endCol)
      IN  IF ~SliceInBounds(beginOffset, endOffset) THEN Panic
          ELSE IF Slice(mem, beginOffset, endOffset) = oldName
               THEN Found(beginOffset, endOffset, newName)
               ELSE NoMatch

collectVarReplacementUnverified(c, node, oldName, newName) ==
    LET loc == node.loc IN
    IF ~IsSet(loc) THEN NoMatch
    ELSE
      LET beginOffset == lineColToOffset(c.lineOffsets, loc.Begin.Line - 1, loc.Begin.Column - 1)
          endOffset   == lineColToOffset(c.lineOffsets, loc.End.Line - 1, loc.End.Column - 1)
      IN  IF ~SliceInBounds(beginOffset, endOffset) THEN Panic
          ELSE Found(beginOffset, endOffset, newName)

collectVarReplacement(c, node, oldName, newName) ==
    LET loc == node.loc IN
    IF ~IsSet(loc) THEN NoMatch
    ELSE
      LET beginLine == loc.Begin.Line - 1
          beginCol  == loc.Begin.Column - 1
          endLine   == loc.End.Line - 1
          endCol    == loc.End.Column - 1
          beginOffset == lineColToOffset(c.lineOffsets, beginLine, beginCol)
          endOffset   == lineColToOffset(c.lineOffsets, endLine, endCol)
      IN  IF ~SliceInBounds(beginOffset, endOffset) THEN Panic
          ELSE IF Slice(mem, beginOffset, endOffset) = oldName
               THEN Found(beginOffset, endOffset, newName)
               ELSE NoMatch

NewName(c, oldName) == c.prefix \o <<Underscore>> \o oldName

(* The loop over n.Binds of one Local node: the context after it, or       *)
(* "panic" when one of its span slices is out of bounds, with the context  *)
(* as the binds accepted before the abort left it.                         *)
RECURSIVE BindsLoop(_, _)
BindsLoop(c, binds) ==
    IF binds = <<>> THEN [kind |-> "ok", ctx |-> c]
    ELSE
      LET b == Head(binds)
          r == collectLocalBindReplacement(c, b, b.Variable, NewName(c, b.Variable))
      IN  IF r.kind = "panic" THEN [kind |-> "panic", ctx |-> c]
          ELSE IF r.kind = "ok"
               THEN BindsLoop([c EXCEPT !.replacements = Append(@, r.rep),
                                        !.localBinds = @ \cup {b.Variable}],
                              Tail(binds))
               ELSE BindsLoop(c, Tail(binds))

(* The switch of collectLocalBindReplacements on one node. *)
VisitLocal(c, node) ==
    IF node.kind = "Local" THEN BindsLoop(c, node.Binds)
    ELSE [kind |-> "ok", ctx |-> c]

InRenameSetAlways(c, id) == TRUE

(* The rename set as a single traversal would know it at the node at idx:  *)
(* the accepted names bound by the Local nodes reached before it.          *)
InRenameSetSoFar(c, id) ==
    /\ id \in c.localBinds
    /\ \E i \in 1 .. idx - 1 :
          LET n == PreOrder(tree)[i]
          IN  \E k \in 1 .. Len(n.Binds) : n.Binds[k].Variable = id

InRenameSet(c, id) == id \in c.localBinds

(* The switch of collectVarReplacements on one node. *)
VisitVar(c, node) ==
    IF node.kind = "Var" /\ InRenameSet(c, node.Id)
    THEN LET r == collectVarReplacement(c, node, node.Id, NewName(c, node.Id))
         IN  IF r.kind = "panic" THEN [kind |-> "panic", ctx |-> c]
             ELSE IF r.kind = "ok"
                  THEN [kind |-> "ok",
                        ctx |-> [c EXCEPT !.replacements = Append(@, r.rep)]]
                  ELSE [kind |-> "ok", ctx |-> c]
    ELSE [kind |-> "ok", ctx |-> c]

----------------------------------------------------------------------------
(* Replacement applier *)

lessAscending(a, b) == a.beginOffset < b.beginOffset

(* The less function handed to sort.Slice: descending beginOffset. *)
less(a, b) == a.beginOffset > b.beginOffset

Swap(s, i, j) == [s EXCEPT ![i] = s[j], ![j] = s[i]]

(* sort.Slice on at most 12 elements is an insertion sort: element i moves *)
(* left while it is less than its left neighbour.                          *)
RECURSIVE MoveLeft(_, _)
MoveLeft(s, j) ==
    IF j > 1 /\ less(s[j], s[j - 1]) THEN MoveLeft(Swap(s, j, j - 1), j - 1) ELSE s

RECURSIVE InsertionSortFrom(_, _)
InsertionSortFrom(s, i) ==
    IF i > Len(s) THEN s ELSE InsertionSortFrom(MoveLeft(s, i), i + 1)

SortSlice(reps) == InsertionSortFrom(reps, 2)

(* The bytes the slice `out` shows: a window on the backing array of       *)
(* ctx.source while it still shares it, its own array afterwards.          *)
Contents(o) == IF o.shared THEN SubSeq(mem, 1, o.len) ELSE o.own

(* The capacity of out.  The capacity Go gives a grown array is not kept:  *)
(* its length stands for it, and no splice the program reaches begins      *)
(* beyond the length.                                                      *)
Cap(o) == IF o.shared THEN Len(mem) ELSE o.len

(* The bytes applyReplacements returns, for edits whose ranges lie in the  *)
(* buffer they are spliced into.                                           *)
RECURSIVE SpliceAll(_, _)
SpliceAll(bytes, reps) ==
    IF reps = <<>> THEN bytes
    ELSE LET r == Head(reps)
         IN  SpliceAll(SubSeq(bytes, 1, r.beginOffset) \o r.newValue
                         \o SubSeq(bytes, r.endOffset + 1, Len(bytes)),
                       Tail(reps))

applyReplacements(source, reps) == SpliceAll(source, SortSlice(reps))

(* The bytes ctx.source shows. *)
Source == SubSeq(mem, 1, ctx.source.len)

----------------------------------------------------------------------------
(* main *)

FileName ==
    << 105, 110, 112, 117, 116, 47, 107, 111, 110, 110, 47, 109, 97, 105, 110,
       46, 108, 105, 98, 115, 111, 110, 110, 101, 116 >>

(* "// Auto-generated by jsonnet-bundler at " *)
HeaderText ==
    << 47, 47, 32, 65, 117, 116, 111, 45, 103, 101, 110, 101, 114, 97, 116, 101,
       100, 32, 98, 121, 32, 106, 115, 111, 110, 110, 101, 116, 45, 98, 117, 110,
       100, 108, 101, 114, 32, 97, 116, 32 >>

(* " for " *)
ForText == << 32, 102, 111, 114, 32 >>

(* time.Format(time.RFC3339) of second t of the minute 2026-10-31T00:00 UTC *)
RFC3339(t) ==
    << 50, 48, 50, 54, 45, 49, 48, 45, 51, 49, 84, 48, 48, 58, 48, 48, 58 >>
    \o << 48 + (t \div 10), 48 + (t % 10), 90 >>

Header(t) == HeaderText \o RFC3339(t) \o ForText \o FileName \o <<NL>>

NewContext(bytes) ==
    [prefix       |-> hash(FileName),
     replacements |-> <<>>,
     source       |-> [len |-> Len(bytes)],
     lineOffsets  |-> buildLineOffsets(bytes),
     localBinds   |-> {}]

NoOut == [shared |-> FALSE, len |-> 0, own |-> <<>>]

NoQuery == [source |-> <<>>, line |-> 0, col |-> 0, table |-> <<>>, res |-> 0]

Nodes == PreOrder(tree)

(* One call of collectLocalBindReplacements: the node at idx of the first  *)
(* traversal.  After the last node main starts the second traversal.       *)
CollectLocalBindReplacements ==
    /\ pc = "binds"
    /\ LET r == VisitLocal(ctx, Nodes[idx]) IN
       IF r.kind = "panic"
       THEN /\ pc' = "panic"
            /\ ctx' = r.ctx
            /\ UNCHANGED idx
       ELSE /\ ctx' = r.ctx
            /\ IF idx < Len(Nodes)
               THEN idx' = idx + 1 /\ pc' = "binds"
               ELSE idx' = 1 /\ pc' = "vars"
    /\ UNCHANGED <<code, tree, mem, out, now, run, output, prevOutput, q>>

(* One call of collectVarReplacements: the node at idx of the second       *)
(* traversal.  After the last node main calls applyReplacements.           *)
CollectVarReplacements ==
    /\ pc = "vars"
    /\ LET r == VisitVar(ctx, Nodes[idx]) IN
       IF r.kind = "panic"
       THEN /\ pc' = "panic"
            /\ ctx' = r.ctx
            /\ UNCHANGED idx
       ELSE /\ ctx' = r.ctx
            /\ IF idx < Len(Nodes)
               THEN idx' = idx + 1 /\ pc' = "vars"
               ELSE idx' = 1 /\ pc' = "apply"
    /\ UNCHANGED <<code, tree, mem, out, now, run, output, prevOutput, q>>

(* applyReplacements up to its loop: reps aliases ctx.replacements, so the *)
(* sort reorders ctx.replacements; out starts as ctx.source itself.        *)
ApplySort ==
    /\ pc = "apply"
    /\ ctx' = [ctx EXCEPT !.replacements = SortSlice(@)]
    /\ out' = [shared |-> TRUE, len |-> ctx.source.len, own |-> <<>>]
    /\ idx' = 1
    /\ pc' = "splice"
    /\ UNCHANGED <<code, tree, mem, now, run, output, prevOutput, q>>

(* One iteration of the loop of applyReplacements:                         *)
(*   out = append(out[:b], append([]byte(newValue), out[e:]...)...)        *)
(* The inner append builds a fresh array; the outer one writes into the    *)
(* array of out when b + len(tmp) fits its capacity and a new one if not.  *)
ApplySplice ==
    /\ pc = "splice"
    /\ idx <= Len(ctx.replacements)
    /\ LET rep == ctx.replacements[idx]
           b   == rep.beginOffset
           e   == rep.endOffset
       IN  IF b < 0 \/ b > Cap(out) \/ e < 0 \/ e > out.len
           THEN /\ pc' = "panic"
                /\ UNCHANGED <<mem, out, idx>>
           ELSE LET old    == Contents(out)
                    tmp    == rep.newValue \o SubSeq(old, e + 1, Len(old))
                    kept   == IF out.shared THEN SubSeq(mem, 1, b) ELSE SubSeq(old, 1, b)
                    newLen == b + Len(tmp)
                IN  /\ IF out.shared /\ newLen <= Len(mem)
                       THEN /\ mem' = kept \o tmp \o SubSeq(mem, newLen + 1, Len(mem))
                            /\ out' = [shared |-> TRUE, len |-> newLen, own |-> <<>>]
                       ELSE /\ mem' = mem
                            /\ out' = [shared |-> FALSE, len |-> newLen, own |-> kept \o tmp]
                    /\ idx' = idx + 1
                    /\ pc' = "splice"
    /\ UNCHANGED <<code, tree, ctx, now, run, output, prevOutput, q>>

(* applyReplacements returns; main reads the clock, puts the header line   *)
(* before the new source and writes the file.                              *)
WriteOutput ==
    /\ pc = "splice"
    /\ idx > Len(ctx.replacements)
    /\ \E t \in now .. MaxClock :
          /\ now' = t
          /\ output' = Header(t) \o Contents(out)
    /\ pc' = "done"
    /\ UNCHANGED <<code, tree, mem, ctx, idx, out, run, prevOutput, q>>

(* The program is run once more on the same file and the same tree. *)
Rerun ==
    /\ pc = "done"
    /\ run = 1
    /\ run' = 2
    /\ prevOutput' = output
    /\ output' = <<>>
    /\ mem' = code \o Zeros(Len(mem) - Len(code))
    /\ ctx' = NewContext(code)
    /\ out' = NoOut
    /\ idx' = 1
    /\ pc' = "binds"
    /\ UNCHANGED <<code, tree, now, q>>

----------------------------------------------------------------------------
(* The offset index on its own: build the table of a source, resolve one   *)
(* (line, col) against it.                                                 *)

BuildIndex ==
    /\ pc = "index"
    /\ q' = [q EXCEPT !.table = buildLineOffsets(q.source)]
    /\ pc' = "resolve"
    /\ UNCHANGED <<code, tree, mem, ctx, idx, out, now, run, output, prevOutput>>

Resolve ==
    /\ pc = "resolve"
    /\ q' = [q EXCEPT !.res = lineColToOffset(q.table, q.line, q.col)]
    /\ pc' = "resolved"
    /\ UNCHANGED <<code, tree, mem, ctx, idx, out, now, run, output, prevOutput>>

----------------------------------------------------------------------------
(* Inputs *)

(* "x", "xy" *)
Names == { <<120>>, <<120, 121>> }

(* "xy\nx", "x\nx" *)
Sources == { <<120, 121, NL, 120>>, <<120, NL, 120>> }

Spares == {0, MaxSpare}

(* Locations of a variable reference: unset, or any begin and end within   *)
(* the bounds; end lines reach one past the last line of every source.     *)
VarLocs ==
    {NoLoc} \cup
    { Loc(bl, bc, el, ec) : bl \in 1 .. MaxLine, bc \in 1 .. MaxCol,
                            el \in 1 .. MaxLine + 1, ec \in 1 .. MaxCol + 1 }

(* Locations of a binding: End.Column is read and dropped by the code. *)
BindLocs ==
    {NoLoc} \cup
    { Loc(bl, bc, el, bc) : bl \in 1 .. MaxLine, bc \in 1 .. MaxCol,
                            el \in 1 .. MaxLine + 1 }

(* "inside": local <bind>; <var>    the reference is in the scope of the  *)
(*                                   binding                               *)
(* "before": [<var>, local <bind>]  the reference is outside of it, and    *)
(*                                   before it in the traversal            *)
(* "pair":   local <bind>, <bind>   one Local node with two binds          *)
Shapes == {"inside", "before", "pair"}

Tree(shape, bn, bl, vn, vl) ==
    IF shape = "inside"
    THEN LocalNode(<<LocalBind(bn, bl)>>, <<VarNode(vn, vl)>>)
    ELSE IF shape = "pair"
    THEN LocalNode(<<LocalBind(bn, bl), LocalBind(vn, vl)>>, <<>>)
    ELSE OtherNode(<<VarNode(vn, vl), LocalNode(<<LocalBind(bn, bl)>>, <<>>)>>)

(* The locations of the tokens of the sources. *)
TokenBindLocs == { Loc(1, 1, 1, 1) }

TokenVarLocs == { Loc(1, 1, 1, 2), Loc(1, 1, 1, 3), Loc(2, 1, 2, 2), Loc(2, 1, 2, 3) }

Start(bytes, spare) ==
    /\ now = 0
    /\ code = bytes
    /\ mem = bytes \o Zeros(spare)
    /\ ctx = NewContext(bytes)
    /\ idx = 1
    /\ out = NoOut
    /\ run = 1
    /\ output = <<>>
    /\ prevOutput = <<>>

Init ==
    /\ \E bytes \in Sources, spare \in Spares : Start(bytes, spare)
    /\ \E shape \in Shapes, bn \in Names, bl \in BindLocs, vn \in Names, vl \in VarLocs :
          tree = Tree(shape, bn, bl, vn, vl)
    /\ pc = "binds"
    /\ q = NoQuery

Next ==
    \/ CollectLocalBindReplacements
    \/ CollectVarReplacements
    \/ ApplySort
    \/ ApplySplice
    \/ WriteOutput

Spec == Init /\ [][Next]_vars

(* Two runs of the program on the same file and tree. *)
InitRerun ==
    /\ \E bytes \in Sources, spare \in Spares : Start(bytes, spare)
    /\ \E shape \in Shapes, bn \in Names, bl \in TokenBindLocs, vn \in Names,
          vl \in TokenVarLocs :
          tree = Tree(shape, bn, bl, vn, vl)
    /\ pc = "binds"
    /\ q = NoQuery

NextRerun ==
    \/ CollectLocalBindReplacements
    \/ CollectVarReplacements
    \/ ApplySort
    \/ ApplySplice
    \/ WriteOutput
    \/ Rerun

SpecRerun == InitRerun /\ [][NextRerun]_vars

(* applyReplacements on its own: any list of at most MaxEdits edits whose  *)
(* ranges lie in the source and do not overlap pairwise.                   *)
Overlap(r1, r2) ==
    r1.beginOffset < r2.endOffset /\ r2.beginOffset < r1.endOffset

NonOverlapping(reps) ==
    \A i, j \in 1 .. Len(reps) : i < j => ~Overlap(reps[i], reps[j])

(* "", "zz" *)
NewTexts == { <<>>, <<122, 122>> }

Edits(bytes) ==
    { [beginOffset |-> b, endOffset |-> e, newValue |-> t] :
        b \in 0 .. Len(bytes), e \in 0 .. Len(bytes), t \in NewTexts }

EditLists(bytes) ==
    { l \in UNION { [1 .. n -> Edits(bytes)] : n \in 0 .. MaxEdits } :
        /\ \A i \in 1 .. Len(l) : l[i].beginOffset <= l[i].endOffset
        /\ NonOverlapping(l) }

InitApply ==
    /\ now = 0
    /\ \E bytes \in Sources, spare \in Spares :
          /\ code = bytes
          /\ mem = bytes \o Zeros(spare)
          /\ \E l \in EditLists(bytes) :
                ctx = [NewContext(bytes) EXCEPT !.replacements = l]
    /\ idx = 1
    /\ out = NoOut
    /\ run = 1
    /\ output = <<>>
    /\ prevOutput = <<>>
    /\ tree = OtherNode(<<>>)
    /\ pc = "apply"
    /\ q = NoQuery

NextApply ==
    \/ ApplySort
    \/ ApplySplice
    \/ WriteOutput

SpecApply == InitApply /\ [][NextApply]_vars

(* The offset index on its own: any source of at most MaxLen bytes over    *)
(* 'x' and '\n', any line from -1 to one past the last, any column.        *)
RECURSIVE ByteSeqs(_)
ByteSeqs(n) ==
    IF n = 0 THEN { <<>> }
    ELSE LET shorter == ByteSeqs(n - 1)
         IN  shorter \cup { Append(s, b) : s \in shorter, b \in {120, NL} }

InitOffsets ==
    /\ now = 0
    /\ \E s \in ByteSeqs(MaxLen), l \in -1 .. MaxLen + 1, c \in 0 .. MaxCol :
          q = [source |-> s, line |-> l, col |-> c, table |-> <<>>, res |-> 0]
    /\ code = <<>>
    /\ mem = <<>>
    /\ ctx = NewContext(<<>>)
    /\ idx = 1
    /\ out = NoOut
    /\ run = 1
    /\ output = <<>>
    /\ prevOutput = <<>>
    /\ tree = OtherNode(<<>>)
    /\ pc = "index"

NextOffsets ==
    \/ BuildIndex
    \/ Resolve

SpecOffsets == InitOffsets /\ [][NextOffsets]_vars

----------------------------------------------------------------------------
(* What the claims speak of *)

(* The name span of a binding as the specification describes it: on the    *)
(* begin line, from the begin column, as long as the name.                 *)
BindBegin(b) ==
    lineColToOffset(buildLineOffsets(code), b.LocRange.Begin.Line - 1,
                    b.LocRange.Begin.Column - 1)

BindOnBeginLine(b) ==
    /\ IsSet(b.LocRange)
    /\ b.LocRange.Begin.Line <= Len(buildLineOffsets(code))
    /\ BindBegin(b) + Len(b.Variable) <= Len(code)
    /\ Slice(code, BindBegin(b), BindBegin(b) + Len(b.Variable)) = b.Variable

(* The span the first pass resolves for a binding. *)
BindEnd(b) ==
    lineColToOffset(buildLineOffsets(code), b.LocRange.End.Line - 1,
                    b.LocRange.Begin.Column + Len(b.Variable) - 1)

BindMismatches(b) ==
    /\ IsSet(b.LocRange)
    /\ 0 <= BindBegin(b) /\ BindBegin(b) <= BindEnd(b) /\ BindEnd(b) <= Len(code)
    /\ Slice(code, BindBegin(b), BindEnd(b)) # b.Variable

(* The span of a variable reference: its begin and its end location. *)
VarBegin(v) ==
    lineColToOffset(buildLineOffsets(code), v.loc.Begin.Line - 1, v.loc.Begin.Column - 1)

VarEnd(v) ==
    lineColToOffset(buildLineOffsets(code), v.loc.End.Line - 1, v.loc.End.Column - 1)

VarVerifies(v) ==
    /\ v.kind = "Var"
    /\ IsSet(v.loc)
    /\ 0 <= VarBegin(v) /\ VarBegin(v) <= VarEnd(v) /\ VarEnd(v) <= Len(code)
    /\ Slice(code, VarBegin(v), VarEnd(v)) = v.Id

VarMismatches(v) ==
    /\ v.kind = "Var"
    /\ IsSet(v.loc)
    /\ 0 <= VarBegin(v) /\ VarBegin(v) <= VarEnd(v) /\ VarEnd(v) <= Len(code)
    /\ Slice(code, VarBegin(v), VarEnd(v)) # v.Id

HasEdit(b, e, text) ==
    \E i \in 1 .. Len(ctx.replacements) :
        ctx.replacements[i] = [beginOffset |-> b, endOffset |-> e, newValue |-> text]

(* The bindings and the variable references of the tree, and the          *)
(* identifiers they name.                                                  *)
AllBinds ==
    UNION { { Nodes[i].Binds[k] : k \in 1 .. Len(Nodes[i].Binds) } : i \in 1 .. Len(Nodes) }

AllVars == { Nodes[i] : i \in { k \in 1 .. Len(Nodes) : Nodes[k].kind = "Var" } }

TreeNames == { v.Id : v \in AllVars } \cup { b.Variable : b \in AllBinds }

AfterPasses == pc \in {"apply", "splice", "done"}

(* The simultaneous substitution of a list of edits in src, read off the   *)
(* original offsets from left to right: at offset p, first the texts of    *)
(* the empty ranges at p, then either the text of the range that begins at *)
(* p, continuing at its end, or the byte at p itself.                      *)
RECURSIVE InsertedAt(_, _)
InsertedAt(reps, p) ==
    IF reps = <<>> THEN <<>>
    ELSE (IF Head(reps).beginOffset = p /\ Head(reps).endOffset = p
          THEN Head(reps).newValue ELSE <<>>)
         \o InsertedAt(Tail(reps), p)

RangesAt(reps, p) ==
    { i \in 1 .. Len(reps) : reps[i].beginOffset = p /\ reps[i].endOffset > p }

RECURSIVE SubstFrom(_, _, _)
SubstFrom(src, reps, p) ==
    InsertedAt(reps, p) \o
    (IF p >= Len(src) THEN <<>>
     ELSE IF RangesAt(reps, p) # {}
          THEN LET r == reps[CHOOSE i \in RangesAt(reps, p) : TRUE]
               IN  r.newValue \o SubstFrom(src, reps, r.endOffset)
          ELSE <<src[p + 1]>> \o SubstFrom(src, reps, p + 1))

SimSubst(src, reps) == SubstFrom(src, reps, 0)

(* applyReplacements is at an edit, or has returned. *)
AtSplice == pc = "splice" /\ idx <= Len(ctx.replacements)

Returned == pc = "splice" /\ idx > Len(ctx.replacements)

SubstitutionHolds ==
    /\ AtSplice =>
          LET e == ctx.replacements[idx].endOffset
          IN  /\ e <= out.len
              /\ Slice(Contents(out), 0, e) = Slice(code, 0, e)
    /\ Returned => Contents(out) = SimSubst(code, ctx.replacements)

AllNonEmpty ==
    \A i \in 1 .. Len(ctx.replacements) :
        ctx.replacements[i].beginOffset < ctx.replacements[i].endOffset

(* C1, as claimed: for every list of pairwise non-overlapping edits,       *)
(* applyReplacements returns the simultaneous substitution, and at every   *)
(* splice the buffer so far still holds the original bytes on [0, end).    *)
C1_AnyNonOverlappingEdits == SubstitutionHolds

(* C1, amended: for every list of pairwise non-overlapping edits with      *)
(* non-empty ranges (begin < end), applyReplacements returns the           *)
(* simultaneous substitution, and at every splice the buffer so far still  *)
(* holds the original bytes on [0, end).                                   *)
C1_NonEmptyNonOverlappingEdits == AllNonEmpty => SubstitutionHolds

(* Two non-empty edits that both change the length have been applied, the  *)
(* input list having held the lower one first.                             *)
C1_Witness ==
    /\ Returned
    /\ Len(ctx.replacements) = 2
    /\ AllNonEmpty
    /\ \A i \in 1 .. 2 :
          Len(ctx.replacements[i].newValue) #
             ctx.replacements[i].endOffset - ctx.replacements[i].beginOffset
    /\ Contents(out) # code

(* C10: the table of buildLineOffsets starts at 0, has one entry more than *)
(* the source has newlines, is strictly increasing, and its entry i >= 1   *)
(* is the offset just after the i-th newline; lineColToOffset returns      *)
(* table[line] + col for a line of the table and 0 for any other line.     *)
C10_LineOffsetIndex ==
    pc = "resolved" =>
      LET t == q.table
          s == q.source
      IN  /\ t[1] = 0
          /\ Len(t) = Cardinality({ k \in 1 .. Len(s) : s[k] = NL }) + 1
          /\ \A i \in 1 .. Len(t) - 1 : t[i] < t[i + 1]
          /\ \A i \in 2 .. Len(t) :
                /\ t[i] >= 1 /\ t[i] <= Len(s)
                /\ s[t[i]] = NL
                /\ Cardinality({ k \in 1 .. t[i] : s[k] = NL }) = i - 1
          /\ q.res = IF 0 <= q.line /\ q.line < Len(t)
                     THEN t[q.line + 1] + q.col ELSE 0

(* A lookup on the third line of a source with two newlines. *)
C10_Witness ==
    /\ pc = "resolved"
    /\ Len(q.table) = 3
    /\ q.line = 2 /\ q.col = 1
    /\ q.res = q.table[3] + 1
    /\ q.res > 1

(* C9, as claimed: ctx.source holds the bytes that were read, always. *)
C9_SourceNeverMutated == Source = code

(* The output after its first line, the header. *)
RECURSIVE FirstNewline(_, _)
FirstNewline(bytes, i) ==
    IF i > Len(bytes) THEN Len(bytes)
    ELSE IF bytes[i] = NL THEN i ELSE FirstNewline(bytes, i + 1)

AfterHeader(bytes) == SubSeq(bytes, FirstNewline(bytes, 1) + 1, Len(bytes))

(* The new source in the file that was written: what follows the header   *)
(* line, whose length does not depend on the time.                         *)
OutputBody == SubSeq(output, Len(Header(now)) + 1, Len(output))

NoEditTouches(b, e) ==
    \A i \in 1 .. Len(ctx.replacements) :
        ~Overlap(ctx.replacements[i], [beginOffset |-> b, endOffset |-> e])

(* Where offset b of the source is in the rewritten text, when the edits   *)
(* do not overlap and none touches b.                                      *)
RECURSIVE Growth(_, _)
Growth(reps, b) ==
    IF reps = <<>> THEN 0
    ELSE (IF Head(reps).beginOffset < b
          THEN Len(Head(reps).newValue) - (Head(reps).endOffset - Head(reps).beginOffset)
          ELSE 0)
         + Growth(Tail(reps), b)

(* The source bytes of the span [b, e) stand in the written file, moved    *)
(* right by what the edits that begin before b have added.                 *)
KeptAt(b, e) ==
    LET at == b + Growth(ctx.replacements, b)
    IN  Slice(OutputBody, at, at + (e - b)) = Slice(code, b, e)

(* The bytes of the span [b, e) are unchanged in the output: no recorded   *)
(* edit covers one of them, and they stand in the written file.            *)
Unchanged(b, e) == NoEditTouches(b, e) /\ KeptAt(b, e)

(* Every recorded edit is a verified one: its range lies in the source,    *)
(* the source bytes on it are literally an identifier of the tree, and its *)
(* text is prefix + "_" + that identifier.                                 *)
EditsVerified ==
    \A i \in 1 .. Len(ctx.replacements) :
       LET r == ctx.replacements[i] IN
       /\ 0 <= r.beginOffset /\ r.beginOffset <= r.endOffset
       /\ r.endOffset <= Len(code)
       /\ Slice(code, r.beginOffset, r.endOffset) \in TreeNames
       /\ r.newValue = ctx.prefix \o <<Underscore>>
                         \o Slice(code, r.beginOffset, r.endOffset)

(* The edit a candidate records: its span and the new name of its          *)
(* identifier.                                                             *)
EditOfVar(v) ==
    [beginOffset |-> VarBegin(v), endOffset |-> VarEnd(v),
     newValue |-> ctx.prefix \o <<Underscore>> \o v.Id]

EditOfBind(b) ==
    [beginOffset |-> BindBegin(b), endOffset |-> BindEnd(b),
     newValue |-> ctx.prefix \o <<Underscore>> \o b.Variable]

(* No edit is recorded for a candidate whose span holds other bytes than   *)
(* its name: no recorded edit is the edit of such a candidate.             *)
NoEditForMismatch ==
    \A i \in 1 .. Len(ctx.replacements) :
       /\ \A v \in AllVars :
             VarMismatches(v) => ctx.replacements[i] # EditOfVar(v)
       /\ \A b \in AllBinds :
             BindMismatches(b) => ctx.replacements[i] # EditOfBind(b)

(* C2, as claimed: a candidate whose span holds other bytes than its name  *)
(* has no edit recorded for it and the bytes of its span are unchanged in  *)
(* the output; every recorded edit is a verified one.                      *)
C2_MismatchUnchanged ==
    /\ EditsVerified
    /\ NoEditForMismatch
    /\ pc = "done" =>
          /\ \A v \in AllVars :
                VarMismatches(v) => Unchanged(VarBegin(v), VarEnd(v))
          /\ \A b \in AllBinds :
                BindMismatches(b) => Unchanged(BindBegin(b), BindEnd(b))

(* C2, amended: a candidate whose span holds other bytes than its name has *)
(* no edit recorded for it, and the bytes of its span are unchanged in the *)
(* output unless the range of an edit recorded for another candidate       *)
(* overlaps that span; every recorded edit is a verified one.              *)
C2_VerifiedEdits ==
    /\ EditsVerified
    /\ NoEditForMismatch
    /\ pc = "done" =>
          /\ \A v \in AllVars :
                (VarMismatches(v) /\ NoEditTouches(VarBegin(v), VarEnd(v)))
                   => KeptAt(VarBegin(v), VarEnd(v))
          /\ \A b \in AllBinds :
                (BindMismatches(b) /\ NoEditTouches(BindBegin(b), BindEnd(b)))
                   => KeptAt(BindBegin(b), BindEnd(b))

(* The file is written: the binding was accepted, and the reference, whose *)
(* name is in the rename set, was dropped because its span, right of the   *)
(* binding, holds other bytes; they stand in the output, moved right.      *)
C2_Witness ==
    /\ pc = "done"
    /\ Len(ctx.replacements) = 1
    /\ \E v \in AllVars :
          /\ v.Id \in ctx.localBinds /\ VarMismatches(v)
          /\ VarBegin(v) < VarEnd(v)
          /\ NoEditTouches(VarBegin(v), VarEnd(v))
          /\ Growth(ctx.replacements, VarBegin(v)) > 0
          /\ KeptAt(VarBegin(v), VarEnd(v))

(* C3, as claimed: no location makes the run abort. *)
C3_NeverAborts == pc # "panic"

(* C4: after both passes every variable reference whose identifier is in   *)
(* the rename set and whose span holds it has an edit on that span with    *)
(* the text prefix + "_" + identifier, wherever its binding is in the      *)
(* traversal.                                                              *)
C4_RenameComplete ==
    AfterPasses =>
       \A v \in AllVars :
          (v.Id \in ctx.localBinds /\ VarVerifies(v)) =>
             HasEdit(VarBegin(v), VarEnd(v), ctx.prefix \o <<Underscore>> \o v.Id)

(* A tree whose reference comes before the binding of its name in the      *)
(* traversal; both were accepted.                                          *)
C4_Witness ==
    /\ pc = "apply"
    /\ Len(Nodes) = 3
    /\ Nodes[2].kind = "Var" /\ Nodes[3].kind = "Local"
    /\ Nodes[3].Binds[1].Variable = Nodes[2].Id
    /\ VarVerifies(Nodes[2])
    /\ Nodes[2].Id \in ctx.localBinds
    /\ Len(ctx.replacements) = 2

(* Scoping of the language: a reference refers to a local binding when it  *)
(* lies in the subtree of a Local node that binds its identifier.          *)
Size(node) == Len(PreOrder(node))

RefersToLocal(i) ==
    \E j \in 1 .. i - 1 :
        /\ Nodes[j].kind = "Local"
        /\ i <= j + Size(Nodes[j]) - 1
        /\ \E k \in 1 .. Len(Nodes[j].Binds) : Nodes[j].Binds[k].Variable = Nodes[i].Id

(* C5, as claimed: a reference that does not refer to a local binding, a   *)
(* name from outside included that is also bound locally somewhere in the  *)
(* file, keeps its bytes: no edit is recorded on its span.                 *)
C5_NonLocalUntouched ==
    pc = "done" =>
       \A i \in 1 .. Len(Nodes) :
          (VarVerifies(Nodes[i]) /\ ~RefersToLocal(i)) =>
             \A k \in 1 .. Len(ctx.replacements) :
                ~( ctx.replacements[k].beginOffset = VarBegin(Nodes[i])
                   /\ ctx.replacements[k].endOffset = VarEnd(Nodes[i]) )

(* The span of a variable reference lies in the source. *)
VarInSource(v) ==
    /\ IsSet(v.loc)
    /\ 0 <= VarBegin(v) /\ VarBegin(v) <= VarEnd(v) /\ VarEnd(v) <= Len(code)

(* C5, amended: a variable reference whose identifier is not in the rename *)
(* set has no edit recorded for it: no recorded edit carries the new name  *)
(* of its identifier; and the source bytes of its span are byte-identical  *)
(* in the output unless the range of an edit recorded for another          *)
(* occurrence overlaps that span.                                          *)
C5_UnboundNameUntouched ==
    AfterPasses =>
       \A v \in AllVars :
          v.Id \notin ctx.localBinds =>
             /\ \A i \in 1 .. Len(ctx.replacements) :
                   ctx.replacements[i].newValue # ctx.prefix \o <<Underscore>> \o v.Id
             /\ ( pc = "done" /\ VarInSource(v)
                  /\ NoEditTouches(VarBegin(v), VarEnd(v)) )
                   => KeptAt(VarBegin(v), VarEnd(v))

(* The binding was renamed, the reference to another name after it was     *)
(* not, and stands further right in the output.                            *)
C5_Witness ==
    /\ pc = "done"
    /\ Len(ctx.replacements) = 1
    /\ \E v \in AllVars :
          /\ VarVerifies(v) /\ v.Id \notin ctx.localBinds
          /\ ctx.replacements[1].endOffset <= VarBegin(v)
          /\ Growth(ctx.replacements, VarBegin(v)) = 10
          /\ Slice(OutputBody, VarBegin(v) + 10, VarEnd(v) + 10) = v.Id

(* C6, as claimed: after both passes no two recorded edits overlap. *)
C6_NonOverlap == AfterPasses => NonOverlapping(ctx.replacements)

(* C8, as claimed: a binding whose source text on its begin line, from its *)
(* begin column, is its name is accepted by the first pass, whatever its   *)
(* end line.                                                               *)
C8_BeginLineSpan ==
    pc \in {"vars", "apply", "splice", "done"} =>
       \A b \in AllBinds :
          BindOnBeginLine(b) =>
             /\ b.Variable \in ctx.localBinds
             /\ HasEdit(BindBegin(b), BindBegin(b) + Len(b.Variable),
                        ctx.prefix \o <<Underscore>> \o b.Variable)

SecondRunDone == run = 2 /\ pc = "done"

(* C7, as claimed: the second run on the same bytes, tree and file name    *)
(* writes the bytes the first run wrote.                                   *)
C7_SameOutput == SecondRunDone => output = prevOutput

(* C7, amended: the second run on the same bytes, tree and file name       *)
(* writes the bytes the first run wrote after the header line; the header  *)
(* line holds the time of the run and differs when the clock has moved.    *)
C7_SameOutputAfterHeader ==
    SecondRunDone =>
       /\ AfterHeader(output) = AfterHeader(prevOutput)
       /\ Len(output) = Len(prevOutput)

(* Both runs renamed something, and their headers differ. *)
C7_Witness ==
    /\ SecondRunDone
    /\ output # prevOutput
    /\ Len(ctx.replacements) = 2
    /\ AfterHeader(output) # code

====
